---- MODULE Spec2Model ----
(***************************************************************************)
(* A model of backend/piplai.py: the PiplAPI gateway, its two TTL caches   *)
(* and the way each operation reshapes or propagates upstream replies.     *)
(* Callers are asyncio coroutines: the code between two awaits runs        *)
(* atomically, so every action below is one such stretch of a coroutine.   *)
(***************************************************************************)
EXTENDS Integers, Sequences, FiniteSets, TLC

VARIABLES
    pc,           \* pc[c]: where coroutine c stands
    args,         \* args[c]: the operation c runs and its parameters
    emails,       \* emails[c]: get_emails' local list `emails`
    idx,          \* idx[c]: index of the record get_emails is working on
    log,          \* log[c]: the upstream replies c received in this invocation
    result,       \* result[c]: what the invocation returned or raised
    email_cache,  \* PiplAPI.email_cache
    label_cache,  \* PiplAPI.label_cache
    now,          \* the caches' timer
    fetched,      \* history: per parameter tuple, the last result fetched upstream
    recent,       \* history: the email cache's keys by last read or write, oldest first
    stale         \* history: stale[c] iff the email cache was invalidated during c's call

vars ==
    <<pc, args, emails, idx, log, result, email_cache, label_cache, now, fetched, recent,
      stale>>

-----------------------------------------------------------------------------
(* JSON values, tagged by kind. A dict is a record over the keys the code   *)
(* reads; a key the payload does not carry holds Absent.                    *)

Absent == [k |-> "absent"]
Null == [k |-> "null"]
NotJson == [k |-> "notjson"]
Str(s) == [k |-> "str", s |-> s]
Bool(b) == [k |-> "bool", b |-> b]
Num(n) == [k |-> "int", n |-> n]
List(l) == [k |-> "list", l |-> l]
Dict(d) == [k |-> "dict", d |-> d]

IsStr(v) == v.k = "str"
IsDict(v) == v.k = "dict"
IsList(v) == v.k = "list"

HasKey(v, f) == f \in DOMAIN v.d /\ v.d[f] # Absent

\* dict.get(f, default)
Get(v, f, default) == IF HasKey(v, f) THEN v.d[f] ELSE default

\* dict[f] = x
Put(v, f, x) == Dict([g \in DOMAIN v.d \cup {f} |-> IF g = f THEN x ELSE v.d[g]])

\* Python truthiness
\* {}: a dict none of whose keys is present
EmptyDict == Dict([nothing |-> Absent])

Truthy(v) ==
    CASE v.k = "str" -> v.s # ""
      [] v.k = "bool" -> v.b
      [] v.k = "int" -> v.n # 0
      [] v.k = "list" -> v.l # <<>>
      [] v.k = "dict" -> \E f \in DOMAIN v.d : v.d[f] # Absent
      [] OTHER -> FALSE

-----------------------------------------------------------------------------
(* cachetools.TTLCache as PiplAPI uses it: a sequence of entries, least     *)
(* recently used first.                                                     *)

EmailTTL == 300
LabelTTL == 3600
MaxSize == 100

Live(cache, t) == SelectSeq(cache, LAMBDA e : t < e.expires)

HasEntry(cache, key) == \E i \in 1..Len(cache) : cache[i].key = key

EntryOf(cache, key) == cache[CHOOSE i \in 1..Len(cache) : cache[i].key = key]

\* key in cache
Contains(cache, key, t) == HasEntry(cache, key) /\ t < EntryOf(cache, key).expires

Without(cache, key) == SelectSeq(cache, LAMBDA e : e.key # key)

\* a slip: a lookup that leaves the order alone
Touch_Unmoved(cache, key) == cache

\* the order cache[key] leaves behind: a lookup moves the entry to the recent end
Touch(cache, key) ==
    IF HasEntry(cache, key) THEN Append(Without(cache, key), EntryOf(cache, key)) ELSE cache

RECURSIVE Shrink(_, _)
Shrink(cache, room) == IF Len(cache) > room THEN Shrink(Tail(cache), room) ELSE cache

\* a slip: the write-back left out
SetItem_Dropped(cache, key, value, ttl, t) == Live(cache, t)

\* cache[key] = value at time t
SetItem(cache, key, value, ttl, t) ==
    LET live == Live(cache, t)
        kept == IF HasEntry(live, key) THEN live ELSE Shrink(live, MaxSize - 1)
    IN  Append(Without(kept, key), [key |-> key, value |-> value, expires |-> t + ttl])

-----------------------------------------------------------------------------
(* Upstream replies: a 2xx reply carrying a payload, a transport failure,   *)
(* or a non-2xx status (raise_for_status raises HTTPStatusError).           *)

Ok(v) == [st |-> "ok", json |-> v]
TransportError == [st |-> "transport"]
StatusError(code) == [st |-> "status", code |-> code]

Failures == {TransportError, StatusError(404), StatusError(500)}

Failed(r) == r.st # "ok"

\* what an invocation leaves its caller with
NoResult == [st |-> "none"]
Return(v) == [st |-> "ok", v |-> v]
Raise(exc) == [st |-> "raise", exc |-> exc]

-----------------------------------------------------------------------------
(* get_emails: the per-record normalisation.                                *)

EmailFields ==
    {"id", "message_id", "subject", "from_address_email", "from_address_json",
     "to_address_json", "cc_address_json", "timestamp_created", "content_preview",
     "body", "thread", "label", "campaign_id", "lead_id", "thread_id", "is_unread"}

EmptyBody == Dict([text |-> Str(""), html |-> Str("")])

\* a slip: every missing address list defaulted alike
Backfill_EmptySender(email) ==
    LET e1 == Put(email, "id", Get(email, "id", Str("")))
        e2 == Put(e1, "message_id", Get(e1, "message_id", Str("")))
        e3 == Put(e2, "subject", Get(e2, "subject", Str("")))
        e4 == Put(e3, "from_address_email", Get(e3, "from_address_email", Str("")))
        e5 == Put(e4, "from_address_json", Get(e4, "from_address_json", List(<<>>)))
        e6 == Put(e5, "to_address_json", Get(e5, "to_address_json", List(<<>>)))
        e7 == Put(e6, "cc_address_json", Get(e6, "cc_address_json", List(<<>>)))
        e8 == Put(e7, "timestamp_created", Get(e7, "timestamp_created", Null))
    IN  Put(e8, "content_preview", Get(e8, "content_preview", Str("")))

\* "Ensure required fields exist"
Backfill(email) ==
    LET e1 == Put(email, "id", Get(email, "id", Str("")))
        e2 == Put(e1, "message_id", Get(e1, "message_id", Str("")))
        e3 == Put(e2, "subject", Get(e2, "subject", Str("")))
        e4 == Put(e3, "from_address_email", Get(e3, "from_address_email", Str("")))
        e5 == Put(e4, "from_address_json",
                  Get(e4, "from_address_json",
                      List(<<Dict([address |-> Get(e4, "from_address_email", Str("")),
                                   name |-> Str("")])>>)))
        e6 == Put(e5, "to_address_json", Get(e5, "to_address_json", List(<<>>)))
        e7 == Put(e6, "cc_address_json", Get(e6, "cc_address_json", List(<<>>)))
        e8 == Put(e7, "timestamp_created", Get(e7, "timestamp_created", Null))
    IN  Put(e8, "content_preview", Get(e8, "content_preview", Str("")))

\* the {text, html} pair the code builds from a string or a dict body
BodyOf(body) ==
    IF IsStr(body) THEN Dict([text |-> body, html |-> body])
    ELSE Dict([text |-> Get(body, "text", Str("")), html |-> Get(body, "html", Str(""))])

\* "Handle email body for preview": the else branch of the thread test
PreviewBody(email) ==
    LET body == Get(email, "body", Null)
        e1 == IF IsStr(body) \/ IsDict(body) THEN Put(email, "body", BodyOf(body))
              ELSE Put(email, "body", EmptyBody)
    IN  Put(e1, "thread", List(<<>>))

\* "Handle other fields"
Finish(email) ==
    LET e1 == Put(email, "label", Get(email, "label", Null))
        e2 == Put(e1, "campaign_id", Get(e1, "campaign_id", Null))
        e3 == Put(e2, "lead_id", Get(e2, "lead_id", Null))
        e4 == Put(e3, "thread_id", Get(e3, "thread_id", Null))
    IN  Put(e4, "is_unread", Get(e4, "is_unread", Bool(FALSE)))

\* the test that sends a record to thread expansion
WantsThread(preview_only, email) == ~preview_only /\ Truthy(Get(email, "thread_id", Null))

\* "Get the full body of the current email from the thread": the scan of thread
\* entries from position j for the one whose id is the record's
RECURSIVE ScanThread(_, _, _)
ScanThread(email, thread, j) ==
    IF j > Len(thread) THEN [st |-> "ok", email |-> email, exc |-> ""]
    ELSE IF ~IsDict(thread[j]) THEN [st |-> "raise", email |-> email, exc |-> "AttributeError"]
    ELSE IF Get(thread[j], "id", Null) = email.d["id"]
    THEN LET body == Get(thread[j], "body", Dict([text |-> Absent, html |-> Absent]))
         IN  [st |-> "ok",
              email |-> IF IsStr(body) \/ IsDict(body) THEN Put(email, "body", BodyOf(body))
                        ELSE email,
              exc |-> ""]
    ELSE ScanThread(email, thread, j + 1)

\* the try block of the thread expansion, given the secondary call's 2xx payload
AdoptThread(email, payload) ==
    IF payload = NotJson THEN [st |-> "raise", email |-> email, exc |-> "JSONDecodeError"]
    ELSE IF ~IsDict(payload) THEN [st |-> "raise", email |-> email, exc |-> "AttributeError"]
    ELSE LET thread == Get(payload, "data", List(<<>>))
             e1 == Put(email, "thread", thread)
         IN  CASE IsList(thread) -> ScanThread(e1, thread.l, 1)
               [] IsStr(thread) /\ thread.s # "" ->
                      [st |-> "raise", email |-> e1, exc |-> "AttributeError"]
               [] IsDict(thread) /\ Truthy(thread) ->
                      [st |-> "raise", email |-> e1, exc |-> "AttributeError"]
               [] IsStr(thread) \/ IsDict(thread) -> [st |-> "ok", email |-> e1, exc |-> ""]
               [] OTHER -> [st |-> "raise", email |-> e1, exc |-> "TypeError"]

\* a slip: the except branch only logging
ThreadFailed_Skipped(email) == email

\* the except branch of the thread expansion
ThreadFailed(email) == Put(email, "thread", List(<<>>))

\* the for loop over `emails` from record i up to the next await: a record that
\* needs its thread stops the walk, the others are completed in place
RECURSIVE Walk(_, _, _)
Walk(es, i, preview_only) ==
    IF i > Len(es) THEN [st |-> "done", emails |-> es, i |-> i, exc |-> ""]
    ELSE IF ~IsDict(es[i]) THEN [st |-> "raise", emails |-> es, i |-> i, exc |-> "AttributeError"]
    ELSE LET e1 == Backfill(es[i])
         IN  IF WantsThread(preview_only, e1)
             THEN [st |-> "await", emails |-> [es EXCEPT ![i] = e1], i |-> i, exc |-> ""]
             ELSE Walk([es EXCEPT ![i] = Finish(PreviewBody(e1))], i + 1, preview_only)

\* `emails = data.get("data", [])` and the start of the loop over it
StartWalk(payload, preview_only) ==
    IF payload = NotJson
    THEN [st |-> "raise", emails |-> <<>>, i |-> 0, exc |-> "JSONDecodeError"]
    ELSE IF ~IsDict(payload)
    THEN [st |-> "raise", emails |-> <<>>, i |-> 0, exc |-> "AttributeError"]
    ELSE LET data == Get(payload, "data", List(<<>>))
         IN  CASE IsList(data) -> Walk(data.l, 1, preview_only)
               [] (IsStr(data) \/ IsDict(data)) /\ Truthy(data) ->
                      [st |-> "raise", emails |-> <<>>, i |-> 0, exc |-> "AttributeError"]
               [] IsStr(data) \/ IsDict(data) ->
                      [st |-> "other", emails |-> <<data>>, i |-> 0, exc |-> ""]
               [] OTHER -> [st |-> "raise", emails |-> <<>>, i |-> 0, exc |-> "TypeError"]

\* Python's str() inside the f-string that builds the key
Fmt(v) ==
    CASE v.k = "null" -> "None"
      [] v.k = "bool" -> IF v.b THEN "True" ELSE "False"
      [] OTHER -> v.s

\* cache_key = f"{preview_only}:{lead_email}:{campaign_id}:{email_type}:{label}"
cache_key(a) ==
    Fmt(Bool(a.preview_only)) \o ":" \o Fmt(a.lead_email) \o ":" \o Fmt(a.campaign_id)
        \o ":" \o Fmt(a.email_type) \o ":" \o Fmt(a.label)

-----------------------------------------------------------------------------
(* The callers and the inputs they and the upstream provider are drawn from *)

Callers == {"c1", "c2"}

RawEmail(id, thread_id, body) ==
    Dict([f \in EmailFields |->
            CASE f = "id" -> id
              [] f = "thread_id" -> thread_id
              [] f = "body" -> body
              [] OTHER -> Absent])

TextOnly(s) == Dict([text |-> Str(s), html |-> Absent])

BodyShapes == {Absent, Null, Str("hi"), TextOnly("t")}

RawEmails == {RawEmail(Str("1"), tid, b) : tid \in {Absent, Str("t1")}, b \in BodyShapes}

Address(address, name) == Dict([address |-> Str(address), name |-> Str(name)])

\* a record with only its sender's address, and one with every field
SenderOnly == Put(RawEmail(Absent, Absent, Absent), "from_address_email", Str("f@x.io"))

FullEmail ==
    Dict([f \in EmailFields |->
            CASE f \in {"from_address_json", "to_address_json"} ->
                     List(<<Address("g@x.io", "G")>>)
              [] f = "cc_address_json" -> List(<<Address("h@x.io", "H")>>)
              [] f = "is_unread" -> Bool(TRUE)
              [] f \in {"thread", "thread_id", "body"} -> Absent
              [] OTHER -> Str(f)])

\* the longest list of records the provider answers with
MaxRecords == 2

\* n records, each with a thread of its own and no body; with `mixed`, every
\* second one has a string body and no thread
Records(n, mixed) ==
    [i \in 1..n |->
        IF mixed /\ i % 2 = 0
        THEN RawEmail(Str(ToString(i)), Absent, Str("hi"))
        ELSE RawEmail(Str(ToString(i)), Str("t" \o ToString(i)), Absent)]

EmailPayloads ==
    {Dict([data |-> List(<<e>>)]) : e \in RawEmails}
    \cup {Dict([data |-> List(Records(n, m))]) : n \in 2..MaxRecords, m \in BOOLEAN}
    \cup {Dict([data |-> List(Append(Records(1, FALSE), Str("junk")))])}
    \cup {Dict([data |-> List(<<e>>)]) : e \in {SenderOnly, FullEmail}}
    \cup {Dict([data |-> Absent]), Dict([data |-> Null]), List(<<>>), NotJson}

ThreadEntry(id, body) == Dict([id |-> id, body |-> body])

ThreadPayloads ==
    {Dict([data |-> List(<<ThreadEntry(Str("0"), Str("x")), ThreadEntry(Str("1"), b)>>)]) :
        b \in {Absent, Null, Str("full"), TextOnly("full")}}
    \cup {Dict([data |-> List(<<ThreadEntry(Str("0"), Str("x"))>>)]),
          Dict([data |-> Absent]), List(<<>>)}

PlainArgs ==
    [op : {"get_emails"}, preview_only : BOOLEAN, lead_email : {Null, Str("a@x.io")},
     campaign_id : {Null}, email_type : {Str("all")}, label : {Null}]

\* get_emails(preview_only, lead_email, campaign_id) with the other parameters defaulted
Args(preview_only, lead_email, campaign_id) ==
    [op |-> "get_emails", preview_only |-> preview_only, lead_email |-> lead_email,
     campaign_id |-> campaign_id, email_type |-> Str("all"), label |-> Null]

\* tuples with a parameter that reads "None" or holds the separator
KeyArgs ==
    {Args(TRUE, Null, Null), Args(TRUE, Str("None"), Null),
     Args(TRUE, Str("a:b"), Null), Args(TRUE, Str("a"), Str("b:None"))}

\* the tuple of the i-th of many campaigns
CampaignArgs(i) == Args(TRUE, Null, Str(ToString(i)))

\* the parameter tuples of the model
EmailArgs == PlainArgs \cup KeyArgs \cup {CampaignArgs(i) : i \in {1, 2, MaxSize, MaxSize + 1}}

NoArgs == [op |-> "none"]

NoFetch == [ok |-> FALSE, at |-> 0, val |-> Null]

\* the instants the timer is read at
TimePoints == {0, 100, 300, 400}

-----------------------------------------------------------------------------
(* Scheduling: `if key in cache: return cache[key]` has no await in it, so  *)
(* no other coroutine runs between the test and the read; the clock does.   *)

InSync == \E c \in Callers : pc[c] \in {"emails_hit", "labels_hit"}

Init ==
    /\ pc = [c \in Callers |-> "idle"]
    /\ args = [c \in Callers |-> NoArgs]
    /\ emails = [c \in Callers |-> <<>>]
    /\ idx = [c \in Callers |-> 0]
    /\ log = [c \in Callers |-> <<>>]
    /\ result = [c \in Callers |-> NoResult]
    /\ email_cache = <<>>
    /\ label_cache = <<>>
    /\ now = 0
    /\ fetched = [a \in EmailArgs |-> NoFetch]
    /\ recent = <<>>
    /\ stale = [c \in Callers |-> FALSE]

Tick ==
    /\ \E t \in TimePoints : t > now /\ now' = t
    /\ UNCHANGED <<pc, args, emails, idx, log, result, email_cache, label_cache, fetched, recent, stale>>

\* the caller takes the outcome; the coroutine's locals are gone
Finished(c) ==
    /\ pc[c] = "done"
    /\ ~InSync
    /\ pc' = [pc EXCEPT ![c] = "idle"]
    /\ args' = [args EXCEPT ![c] = NoArgs]
    /\ emails' = [emails EXCEPT ![c] = <<>>]
    /\ idx' = [idx EXCEPT ![c] = 0]
    /\ log' = [log EXCEPT ![c] = <<>>]
    /\ result' = [result EXCEPT ![c] = NoResult]
    /\ stale' = [stale EXCEPT ![c] = FALSE]
    /\ UNCHANGED <<email_cache, label_cache, now, fetched, recent>>

\* the history kept for a tuple whose entry the cache no longer holds is dropped
Forget(f, cache) ==
    [a \in EmailArgs |-> IF HasEntry(cache, cache_key(a)) THEN f[a] ELSE NoFetch]

\* the keys an email cache holds
KeysOf(cache) == {cache[i].key : i \in 1..Len(cache)}

\* the order of last use once `key` is read or written and `cache` is what is left
Used(order, key, cache) ==
    LET Kept(k) == k # key /\ k \in KeysOf(cache)
    IN  Append(SelectSeq(order, Kept), key)

\* the calls awaiting upstream inside get_emails
InFlight(c) == pc[c] \in {"emails_primary", "emails_thread"}

-----------------------------------------------------------------------------
(* get_emails                                                               *)

\* the call up to its first await: the key, the cache test, the primary request
CallGetEmails(c, a) ==
    /\ pc[c] = "idle"
    /\ ~InSync
    /\ pc' = [pc EXCEPT ![c] = IF Contains(email_cache, cache_key(a), now)
                               THEN "emails_hit" ELSE "emails_primary"]
    /\ args' = [args EXCEPT ![c] = a]
    /\ UNCHANGED <<emails, idx, log, result, email_cache, label_cache, now, fetched, recent, stale>>

\* return self.email_cache[cache_key]
EmailsHit(c) ==
    /\ pc[c] = "emails_hit"
    /\ pc' = [pc EXCEPT ![c] = "done"]
    /\ result' = [result EXCEPT ![c] =
                    IF Contains(email_cache, cache_key(args[c]), now)
                    THEN Return(EntryOf(email_cache, cache_key(args[c])).value)
                    ELSE Raise("KeyError")]
    /\ email_cache' = Touch(email_cache, cache_key(args[c]))
    /\ recent' = IF Contains(email_cache, cache_key(args[c]), now)
                 THEN Used(recent, cache_key(args[c]), email_cache)
                 ELSE recent
    /\ UNCHANGED <<args, emails, idx, log, label_cache, now, fetched, stale>>

\* where the loop over `emails` stands after a stretch of it: awaiting a thread,
\* raised, or through, and then the result is cached and returned
Proceed(c, w) ==
    CASE w.st = "await" ->
           /\ pc' = [pc EXCEPT ![c] = "emails_thread"]
           /\ emails' = [emails EXCEPT ![c] = w.emails]
           /\ idx' = [idx EXCEPT ![c] = w.i]
           /\ UNCHANGED <<result, email_cache, fetched, recent, stale>>
      [] w.st = "raise" ->
           /\ pc' = [pc EXCEPT ![c] = "done"]
           /\ emails' = [emails EXCEPT ![c] = <<>>]
           /\ idx' = [idx EXCEPT ![c] = 0]
           /\ result' = [result EXCEPT ![c] = Raise(w.exc)]
           /\ UNCHANGED <<email_cache, fetched, recent, stale>>
      [] OTHER ->
           LET v == IF w.st = "done" THEN List(w.emails) ELSE w.emails[1]
               cache == SetItem(email_cache, cache_key(args[c]), v, EmailTTL, now)
           IN  /\ pc' = [pc EXCEPT ![c] = "done"]
               /\ emails' = [emails EXCEPT ![c] = <<>>]
               /\ idx' = [idx EXCEPT ![c] = 0]
               /\ result' = [result EXCEPT ![c] = Return(v)]
               /\ email_cache' = cache
               /\ fetched' = [Forget(fetched, cache) EXCEPT
                                ![args[c]] = [ok |-> TRUE, at |-> now, val |-> v]]
               /\ recent' = Used(recent, cache_key(args[c]), cache)
               /\ UNCHANGED stale

\* the primary call's reply
EmailsPrimaryReply(c, r) ==
    /\ pc[c] = "emails_primary"
    /\ ~InSync
    /\ log' = [log EXCEPT ![c] = Append(@, r)]
    /\ IF Failed(r)
       THEN /\ pc' = [pc EXCEPT ![c] = "done"]
            /\ result' = [result EXCEPT ![c] = Raise("HTTPError")]
            /\ UNCHANGED <<emails, idx, email_cache, fetched, recent, stale>>
       ELSE Proceed(c, StartWalk(r.json, args[c].preview_only))
    /\ UNCHANGED <<args, label_cache, now>>

\* the thread call's reply for record idx[c], and the loop from there on
EmailsThreadReply(c, r) ==
    /\ pc[c] = "emails_thread"
    /\ ~InSync
    /\ log' = [log EXCEPT ![c] = Append(@, r)]
    /\ LET i == idx[c]
           t == IF Failed(r)
                THEN [st |-> "ok", email |-> ThreadFailed(emails[c][i]), exc |-> ""]
                ELSE AdoptThread(emails[c][i], r.json)
       IN  IF t.st = "raise"
           THEN Proceed(c, [st |-> "raise", emails |-> <<>>, i |-> 0, exc |-> t.exc])
           ELSE Proceed(c, Walk([emails[c] EXCEPT ![i] = Finish(t.email)], i + 1,
                                args[c].preview_only))
    /\ UNCHANGED <<args, label_cache, now>>

\* a slip: one clear for both families
invalidate_email_cache_Both ==
    /\ ~InSync
    /\ email_cache # <<>> \/ \E c \in Callers : InFlight(c) /\ ~stale[c]
    /\ email_cache' = <<>>
    /\ label_cache' = <<>>
    /\ fetched' = [a \in EmailArgs |-> NoFetch]
    /\ recent' = <<>>
    /\ stale' = [c \in Callers |-> stale[c] \/ InFlight(c)]
    /\ UNCHANGED <<pc, args, emails, idx, log, result, now>>

\* invalidate_email_cache
invalidate_email_cache ==
    /\ ~InSync
    /\ email_cache # <<>> \/ \E c \in Callers : InFlight(c) /\ ~stale[c]
    /\ email_cache' = <<>>
    /\ fetched' = [a \in EmailArgs |-> NoFetch]
    /\ recent' = <<>>
    /\ stale' = [c \in Callers |-> stale[c] \/ InFlight(c)]
    /\ UNCHANGED <<pc, args, emails, idx, log, result, label_cache, now>>

invalidate_label_cache ==
    /\ ~InSync
    /\ label_cache # <<>>
    /\ label_cache' = <<>>
    /\ UNCHANGED <<pc, args, emails, idx, log, result, email_cache, now, fetched, recent, stale>>

-----------------------------------------------------------------------------
(* The operations with a single upstream call                               *)

\* response.raise_for_status(); return response.json() under `except: raise`
Propagate(r) ==
    IF Failed(r) THEN Raise("HTTPError")
    ELSE IF r.json = NotJson THEN Raise("JSONDecodeError")
    ELSE Return(r.json)

\* the same under an except branch that returns a default
Degrade(r, default) ==
    IF Failed(r) THEN Return(default)
    ELSE IF r.json = NotJson THEN Raise("JSONDecodeError")
    ELSE Return(r.json)

\* a slip: send_email swallowing the failure as the read operations do
send_email_result_Degraded(r) == Degrade(r, EmptyDict)

send_email_result(r) == Propagate(r)
add_lead_to_sequence_result(r) == Propagate(r)
update_lead_result(r) == Propagate(r)
update_email_label_result(r) == Propagate(r)
get_campaigns_result(r) == Degrade(r, List(<<>>))
get_tags_result(r) == Degrade(r, List(<<>>))
\* a slip: get_analytics re-raising as the write operations do
get_analytics_result_Raising(r) == Propagate(r)

get_analytics_result(r) == Degrade(r, Dict([stats |-> EmptyDict]))

LeadKeys == {"data", "_id", "total", "page", "limit"}

Envelope(data, total, page, limit) ==
    Dict([f \in LeadKeys |->
            CASE f = "data" -> data
              [] f = "total" -> total
              [] f = "page" -> page
              [] f = "limit" -> limit
              [] OTHER -> Absent])

\* len(x) raises TypeError on these
Unsized(v) == v.k \in {"null", "int", "bool"}

\* "Ensure we return a consistent response format": the four shapes of the payload
leads_page_of(a, data) ==
    CASE IsDict(data) /\ HasKey(data, "data") ->
             IF Unsized(data.d["data"]) THEN Raise("TypeError") ELSE Return(data)
      [] IsDict(data) /\ HasKey(data, "_id") ->
             Return(Envelope(List(<<data>>), Num(1), a.page, a.limit))
      [] IsList(data) -> Return(Envelope(data, Num(Len(data.l)), a.page, a.limit))
      [] OTHER -> Return(Envelope(List(<<>>), Num(0), a.page, a.limit))

\* a slip: the empty page of the except branch built from the defaults
get_leads_result_FirstPage(a, r) ==
    IF Failed(r) THEN Return(Envelope(List(<<>>), Num(0), Num(1), Num(10)))
    ELSE IF r.json = NotJson THEN Raise("JSONDecodeError")
    ELSE leads_page_of(a, r.json)

\* get_leads' outcome for a reply
get_leads_result(a, r) ==
    IF Failed(r) THEN Return(Envelope(List(<<>>), Num(0), a.page, a.limit))
    ELSE IF r.json = NotJson THEN Raise("JSONDecodeError")
    ELSE leads_page_of(a, r.json)

\* the request each single-call operation awaits
Awaits(a) ==
    CASE a.op = "send_email" -> IF Truthy(a.reply_to_id) THEN "send_reply" ELSE "send_lead_add"
      [] OTHER -> a.op

SimpleResult(a, r) ==
    CASE a.op = "send_email" -> send_email_result(r)
      [] a.op = "add_lead_to_sequence" -> add_lead_to_sequence_result(r)
      [] a.op = "update_lead" -> update_lead_result(r)
      [] a.op = "update_email_label" -> update_email_label_result(r)
      [] a.op = "get_campaigns" -> get_campaigns_result(r)
      [] a.op = "get_tags" -> get_tags_result(r)
      [] a.op = "get_analytics" -> get_analytics_result(r)
      [] a.op = "get_leads" -> get_leads_result(a, r)

SimpleOps ==
    {"send_email", "add_lead_to_sequence", "update_lead", "update_email_label",
     "get_campaigns", "get_tags", "get_analytics", "get_leads"}

SimpleWaits == (SimpleOps \ {"send_email"}) \cup {"send_reply", "send_lead_add"}

SimpleArgs ==
    [op : {"send_email"}, reply_to_id : {Null, Str(""), Str("m1")}]
    \cup [op : SimpleOps \ {"send_email", "get_leads"}]
    \cup [op : {"get_leads"}, page : {Num(1), Num(3)}, limit : {Num(10), Num(25)}]

\* the call up to its await: the request is issued
CallSimple(c, a) ==
    /\ pc[c] = "idle"
    /\ ~InSync
    /\ pc' = [pc EXCEPT ![c] = Awaits(a)]
    /\ args' = [args EXCEPT ![c] = a]
    /\ UNCHANGED <<emails, idx, log, result, email_cache, label_cache, now, fetched, recent, stale>>

\* a slip: a label update that went through clearing the email cache
SimpleReply_Invalidating(c, r) ==
    /\ pc[c] \in SimpleWaits
    /\ ~InSync
    /\ pc' = [pc EXCEPT ![c] = "done"]
    /\ log' = [log EXCEPT ![c] = Append(@, r)]
    /\ result' = [result EXCEPT ![c] = SimpleResult(args[c], r)]
    /\ email_cache' = IF args[c].op = "update_email_label" /\ ~Failed(r)
                      THEN <<>> ELSE email_cache
    /\ UNCHANGED <<args, emails, idx, label_cache, now, fetched, recent, stale>>

\* the reply, reshaped, propagated or degraded as the operation has it
SimpleReply(c, r) ==
    /\ pc[c] \in SimpleWaits
    /\ ~InSync
    /\ pc' = [pc EXCEPT ![c] = "done"]
    /\ log' = [log EXCEPT ![c] = Append(@, r)]
    /\ result' = [result EXCEPT ![c] = SimpleResult(args[c], r)]
    /\ UNCHANGED <<args, emails, idx, email_cache, label_cache, now, fetched, recent, stale>>

Lead(id) == Dict([f \in LeadKeys |-> IF f = "_id" THEN Str(id) ELSE Absent])

LeadPayloads ==
    {Envelope(List(<<Lead("L1")>>), Num(7), Num(1), Num(10)),
     Envelope(List(<<Lead("L1")>>), Absent, Absent, Absent),
     Envelope(Null, Num(0), Num(1), Num(10)),
     Lead("L1"),
     List(<<Lead("L1"), Lead("L2")>>),
     List(<<>>),
     Envelope(Absent, Num(0), Absent, Absent),
     Str("oops"),
     Null,
     NotJson}

ProviderPayloads == {Dict([id |-> Str("r1")]), List(<<Dict([id |-> Str("r1")])>>), NotJson}

-----------------------------------------------------------------------------
(* get_labels                                                               *)

default_labels ==
    List(<<Str("INTERESTED"), Str("NOT_INTERESTED"), Str("MEETING_BOOKED"), Str("FOLLOW_UP"),
           Str("WRONG_PERSON"), Str("QUALIFIED"), Str("NOT_QUALIFIED"), Str("CONTACTED"),
           Str("RESPONDED"), Str("NO_RESPONSE")>>)

\* str.upper() and str.replace(" ", "_") on the tag names the provider is given here
Upper(s) ==
    CASE s = "Follow Up" -> "FOLLOW UP"
      [] s = "vip" -> "VIP"
      [] OTHER -> s

Underscored(s) ==
    CASE s = "FOLLOW UP" -> "FOLLOW_UP"
      [] s = "Follow Up" -> "Follow_Up"
      [] OTHER -> s

\* the comprehension over `tags`, from position j, with the labels gathered so far
RECURSIVE LabelsOfTags(_, _, _)
LabelsOfTags(tags, j, acc) ==
    IF j > Len(tags) THEN [st |-> "ok", labels |-> acc, exc |-> ""]
    ELSE IF ~IsDict(tags[j]) THEN [st |-> "raise", labels |-> acc, exc |-> "AttributeError"]
    ELSE LET name == Get(tags[j], "name", Null)
         IN  IF ~Truthy(name) THEN LabelsOfTags(tags, j + 1, acc)
             ELSE IF ~IsStr(name)
             THEN [st |-> "raise", labels |-> acc, exc |-> "AttributeError"]
             ELSE LabelsOfTags(tags, j + 1, Append(acc, Str(Underscored(Upper(name.s)))))

\* the first tier, given the labels endpoint's 2xx payload
labels_from_endpoint(payload) ==
    IF payload = NotJson THEN Raise("JSONDecodeError")
    ELSE IF ~IsDict(payload) THEN Raise("AttributeError")
    ELSE Return(Get(payload, "labels", List(<<>>)))

\* the second tier, given the tag list's 2xx payload
labels_from_tags(payload) ==
    CASE payload = NotJson -> Raise("JSONDecodeError")
      [] IsList(payload) ->
             LET got == LabelsOfTags(payload.l, 1, <<>>)
             IN  IF got.st = "ok" THEN Return(List(got.labels)) ELSE Raise(got.exc)
      [] (IsDict(payload) \/ IsStr(payload)) /\ Truthy(payload) -> Raise("AttributeError")
      [] IsDict(payload) \/ IsStr(payload) -> Return(List(<<>>))
      [] OTHER -> Raise("TypeError")

\* a slip: every non-2xx status of the labels endpoint tried against the tag list
TriesTags_AnyStatus(r) == r.st = "status"

\* whether the first tier's failure sends get_labels to the tag list
TriesTags(r) == r.st = "status" /\ r.code = 404

\* a tier's outcome leaves get_labels: a returned value is cached first
LabelsLeave(c, out) ==
    /\ pc' = [pc EXCEPT ![c] = "done"]
    /\ result' = [result EXCEPT ![c] = out]
    /\ label_cache' = IF out.st = "ok"
                      THEN SetItem(label_cache, "labels", out.v, LabelTTL, now)
                      ELSE label_cache

\* the call up to its first await: the cache test, the labels request
CallGetLabels(c) ==
    /\ pc[c] = "idle"
    /\ ~InSync
    /\ pc' = [pc EXCEPT ![c] = IF Contains(label_cache, "labels", now)
                               THEN "labels_hit" ELSE "labels_first"]
    /\ args' = [args EXCEPT ![c] = [op |-> "get_labels"]]
    /\ UNCHANGED <<emails, idx, log, result, email_cache, label_cache, now, fetched, recent, stale>>

\* return self.label_cache["labels"]
LabelsHit(c) ==
    /\ pc[c] = "labels_hit"
    /\ pc' = [pc EXCEPT ![c] = "done"]
    /\ result' = [result EXCEPT ![c] =
                    IF Contains(label_cache, "labels", now)
                    THEN Return(EntryOf(label_cache, "labels").value)
                    ELSE Raise("KeyError")]
    /\ label_cache' = Touch(label_cache, "labels")
    /\ UNCHANGED <<args, emails, idx, log, email_cache, now, fetched, recent, stale>>

\* the labels endpoint's reply
LabelsFirstReply(c, r) ==
    /\ pc[c] = "labels_first"
    /\ ~InSync
    /\ log' = [log EXCEPT ![c] = Append(@, r)]
    /\ IF TriesTags(r)
       THEN /\ pc' = [pc EXCEPT ![c] = "labels_tags"]
            /\ UNCHANGED <<result, label_cache>>
       ELSE LabelsLeave(c, IF Failed(r) THEN Return(default_labels)
                           ELSE labels_from_endpoint(r.json))
    /\ UNCHANGED <<args, emails, idx, email_cache, now, fetched, recent, stale>>

\* the tag list's reply
LabelsTagsReply(c, r) ==
    /\ pc[c] = "labels_tags"
    /\ ~InSync
    /\ log' = [log EXCEPT ![c] = Append(@, r)]
    /\ LabelsLeave(c, IF Failed(r) THEN Return(default_labels) ELSE labels_from_tags(r.json))
    /\ UNCHANGED <<args, emails, idx, email_cache, now, fetched, recent, stale>>

Tag(name) == Dict([name |-> name])

LabelPayloads ==
    {Dict([labels |-> List(<<Str("HOT")>>)]), Dict([labels |-> Absent]),
     List(<<Str("HOT")>>), NotJson}

TagPayloads ==
    {List(<<Tag(Str("Follow Up")), Tag(Str("vip")), Tag(Absent)>>),
     List(<<Str("vip")>>), Tag(Str("vip")), Null, NotJson}

\* the provider's replies when the caches are what is being exercised
FewEmailPayloads ==
    {Dict([data |-> List(<<>>)]),
     Dict([data |-> List(<<RawEmail(Str("1"), Str("t1"), Str("hi"))>>)])}

FewThreadPayloads == {Dict([data |-> List(<<ThreadEntry(Str("1"), Str("full"))>>)])}

\* the parameter tuples the callers pass
CallArgs == {a \in PlainArgs : a.lead_email = Null}

FewLabelPayloads == {Dict([labels |-> List(<<Str("HOT")>>)])}

FewTagPayloads == {List(<<Tag(Str("vip"))>>)}

\* the writes the callers make, and the replies they get
WriteArgs ==
    {[op |-> "send_email", reply_to_id |-> Str("m1")], [op |-> "send_email", reply_to_id |-> Null],
     [op |-> "add_lead_to_sequence"], [op |-> "update_lead"], [op |-> "update_email_label"]}

WriteReplies == {TransportError, Ok(Dict([id |-> Str("r1")]))}

\* one caller, a running clock, few payloads
Next ==
    \/ Tick
    \/ Finished("c1")
    \/ \E a \in CallArgs : CallGetEmails("c1", a)
    \/ EmailsHit("c1")
    \/ \E r \in Failures \cup {Ok(p) : p \in FewEmailPayloads} : EmailsPrimaryReply("c1", r)
    \/ \E r \in Failures \cup {Ok(p) : p \in FewThreadPayloads} : EmailsThreadReply("c1", r)
    \/ invalidate_email_cache
    \/ CallGetLabels("c1")
    \/ LabelsHit("c1")
    \/ \E r \in Failures \cup {Ok(p) : p \in FewLabelPayloads} : LabelsFirstReply("c1", r)
    \/ \E r \in Failures \cup {Ok(p) : p \in FewTagPayloads} : LabelsTagsReply("c1", r)
    \/ invalidate_label_cache
    \/ \E a \in WriteArgs : CallSimple("c1", a)
    \/ \E r \in WriteReplies : SimpleReply("c1", r)

Spec == Init /\ [][Next]_vars

\* both caches empty
Cold == email_cache = <<>> /\ label_cache = <<>>

\* one caller, a standing clock, every payload shape, each call on cold caches
NextShapes ==
    \/ Finished("c1")
    \/ \E a \in CallArgs : Cold /\ CallGetEmails("c1", a)
    \/ \E r \in Failures \cup {Ok(p) : p \in EmailPayloads} : EmailsPrimaryReply("c1", r)
    \/ \E r \in Failures \cup {Ok(p) : p \in ThreadPayloads} : EmailsThreadReply("c1", r)
    \/ invalidate_email_cache
    \/ Cold /\ CallGetLabels("c1")
    \/ \E r \in Failures \cup {Ok(p) : p \in LabelPayloads} : LabelsFirstReply("c1", r)
    \/ \E r \in Failures \cup {Ok(p) : p \in TagPayloads} : LabelsTagsReply("c1", r)
    \/ invalidate_label_cache
    \/ \E a \in SimpleArgs : Cold /\ CallSimple("c1", a)
    \/ \E r \in Failures \cup {Ok(p) : p \in LeadPayloads \cup ProviderPayloads} :
            SimpleReply("c1", r)

SpecShapes == Init /\ [][NextShapes]_vars

\* Callers whose parameters read "None" or hold the separator
NextKeys ==
    \/ Tick
    \/ Finished("c1")
    \/ \E a \in KeyArgs : CallGetEmails("c1", a)
    \/ EmailsHit("c1")
    \/ \E r \in {TransportError} \cup {Ok(p) : p \in FewEmailPayloads} :
            EmailsPrimaryReply("c1", r)
    \/ invalidate_email_cache

SpecKeys == Init /\ [][NextKeys]_vars

\* Two callers on the event loop, asking for the same emails
NextRace ==
    \/ \E c \in Callers : Finished(c)
    \/ \E c \in Callers : CallGetEmails(c, Args(TRUE, Null, Null))
    \/ \E c \in Callers : EmailsHit(c)
    \/ \E c \in Callers, r \in {TransportError} \cup {Ok(p) : p \in FewEmailPayloads} :
            EmailsPrimaryReply(c, r)
    \/ invalidate_email_cache

SpecRace == Init /\ [][NextRace]_vars

\* A service that has answered get_emails for campaigns 1 .. MaxSize - 1, one
\* after the other, at time 0, each with an empty list: one entry short of full.
ManyCampaigns == MaxSize - 1

AlmostFull ==
    /\ pc = [c \in Callers |-> "idle"]
    /\ args = [c \in Callers |-> NoArgs]
    /\ emails = [c \in Callers |-> <<>>]
    /\ idx = [c \in Callers |-> 0]
    /\ log = [c \in Callers |-> <<>>]
    /\ result = [c \in Callers |-> NoResult]
    /\ email_cache = [i \in 1..ManyCampaigns |->
                        [key |-> cache_key(CampaignArgs(i)), value |-> List(<<>>),
                         expires |-> EmailTTL]]
    /\ label_cache = <<>>
    /\ now = 0
    /\ fetched = [a \in EmailArgs |->
                    IF \E i \in 1..ManyCampaigns : a = CampaignArgs(i)
                    THEN [ok |-> TRUE, at |-> 0, val |-> List(<<>>)]
                    ELSE NoFetch]
    /\ recent = [i \in 1..ManyCampaigns |-> cache_key(CampaignArgs(i))]
    /\ stale = [c \in Callers |-> FALSE]

\* the campaigns asked for from there: the two oldest and two new ones
FullArgs == {CampaignArgs(i) : i \in {1, MaxSize, MaxSize + 1}}

NextFull ==
    \/ Tick
    \/ Finished("c1")
    \/ \E a \in FullArgs : CallGetEmails("c1", a)
    \/ EmailsHit("c1")
    \/ \E r \in {TransportError, Ok(Dict([data |-> List(<<>>)]))} : EmailsPrimaryReply("c1", r)
    \/ invalidate_email_cache
    \/ CallGetLabels("c1")
    \/ LabelsHit("c1")
    \/ \E r \in {Ok(p) : p \in FewLabelPayloads} : LabelsFirstReply("c1", r)
    \/ invalidate_label_cache

SpecFull == AlmostFull /\ [][NextFull]_vars

-----------------------------------------------------------------------------
(* Properties                                                               *)

Last(q) == q[Len(q)]

\* c has completed an invocation of op
DoneWith(c, op) == pc[c] = "done" /\ args[c].op = op

\* every upstream reply of c's invocation was a failure, and there was one
AllFailed(c) == log[c] # <<>> /\ \A i \in 1..Len(log[c]) : Failed(log[c][i])

\* every upstream reply of c's invocation was a 2xx carrying JSON, and there was one
AllJson(c) ==
    /\ log[c] # <<>>
    /\ \A i \in 1..Len(log[c]) : ~Failed(log[c][i]) /\ log[c][i].json # NotJson

\* a record whose body is an object with both keys
HasNormalBody(e) ==
    /\ IsDict(e)
    /\ HasKey(e, "body")
    /\ IsDict(e.d["body"])
    /\ HasKey(e.d["body"], "text")
    /\ HasKey(e.d["body"], "html")

\* C1: every record get_emails returns has a body that is an object with both
\* a text and an html key
C1_BodyAlwaysNormalised ==
    \A c \in Callers :
        (DoneWith(c, "get_emails") /\ result[c].st = "ok" /\ IsList(result[c].v)) =>
            \A i \in 1..Len(result[c].v.l) : HasNormalBody(result[c].v.l[i])

\* the step in which c handles the reply to a thread call, the reply a failure,
\* and what remains of the list are records (objects)
ThreadFailureStep(c) ==
    /\ pc[c] = "emails_thread"
    /\ Len(log'[c]) = Len(log[c]) + 1
    /\ Failed(Last(log'[c]))
    /\ \A j \in (idx[c] + 1)..Len(emails[c]) : IsDict(emails[c][j])

\* C2: a failed thread call leaves its record with thread = [] and the loop goes
\* on to the remaining records: the call awaits a later record's thread or
\* returns every record; the failure does not make it raise
C2_ThreadFailureIsBestEffort ==
    [][\A c \in Callers :
          ThreadFailureStep(c) =>
              \/ /\ pc'[c] = "emails_thread"
                 /\ idx'[c] > idx[c]
                 /\ emails'[c][idx[c]].d["thread"] = List(<<>>)
              \/ /\ pc'[c] = "done"
                 /\ result'[c].st = "ok"
                 /\ IsList(result'[c].v)
                 /\ Len(result'[c].v.l) = Len(emails[c])
                 /\ result'[c].v.l[idx[c]].d["thread"] = List(<<>>)]_vars

\* a call returned all its records although the thread call of the first failed
C2_Witness ==
    \E c \in Callers :
        /\ DoneWith(c, "get_emails")
        /\ Len(log[c]) >= 3
        /\ Failed(log[c][2])
        /\ result[c].st = "ok"
        /\ Len(result[c].v.l) = MaxRecords

\* the tuple was fetched upstream, and the entry written then has not expired
FreshlyFetched(a) == fetched[a].ok /\ now < fetched[a].at + EmailTTL

\* C3: a call with a tuple fetched less than 300 s ago, with no invalidation or
\* eviction since, goes to the cache and not upstream, and returns what was fetched
C3_HitWithinTTL ==
    [][\A c \in Callers :
          /\ (pc[c] = "idle" /\ pc'[c] # "idle" /\ args'[c].op = "get_emails"
                /\ FreshlyFetched(args'[c]))
             => pc'[c] = "emails_hit"
          /\ (pc[c] = "emails_hit" /\ pc'[c] = "done" /\ FreshlyFetched(args[c]))
             => (result'[c] = Return(fetched[args[c]].val) /\ log'[c] = <<>>)]_vars

\* a call served from the cache some time after the fetch
C3_Witness ==
    \E c \in Callers :
        /\ DoneWith(c, "get_emails")
        /\ log[c] = <<>>
        /\ FreshlyFetched(args[c])
        /\ now > fetched[args[c]].at
        /\ result[c] = Return(fetched[args[c]].val)

WriteOps == {"send_email", "add_lead_to_sequence", "update_lead", "update_email_label"}

\* C4: send_email (either mode), add_lead_to_sequence, update_lead and
\* update_email_label raise when the upstream call fails, and what they return
\* is the provider's reply
C4_WritesPropagate ==
    \A c \in Callers :
        (pc[c] = "done" /\ args[c].op \in WriteOps) =>
            /\ Failed(log[c][1]) => result[c] = Raise("HTTPError")
            /\ result[c].st = "ok" => (~Failed(log[c][1]) /\ result[c].v = log[c][1].json)

\* send_email in lead-add mode raised on a failed upstream call
C4_Witness ==
    \E c \in Callers :
        /\ DoneWith(c, "send_email")
        /\ ~Truthy(args[c].reply_to_id)
        /\ Failed(log[c][1])
        /\ result[c].st = "raise"

\* C5: on an upstream failure get_campaigns and get_tags return [] and
\* get_analytics returns {stats: {}}
C5_ReadsDegrade ==
    \A c \in Callers :
        (pc[c] = "done" /\ log[c] # <<>> /\ Failed(log[c][1])) =>
            /\ args[c].op \in {"get_campaigns", "get_tags"} => result[c] = Return(List(<<>>))
            /\ args[c].op = "get_analytics" => result[c] = Return(Dict([stats |-> EmptyDict]))

\* get_analytics returned a value after a failed upstream call
C5_Witness ==
    \E c \in Callers :
        DoneWith(c, "get_analytics") /\ Failed(log[c][1]) /\ result[c].st = "ok"

\* a page: data a sequence, and total, page and limit present
IsLeadsPage(v) ==
    /\ IsDict(v)
    /\ HasKey(v, "data") /\ IsList(v.d["data"])
    /\ HasKey(v, "total") /\ HasKey(v, "page") /\ HasKey(v, "limit")

\* C6: whatever get_leads returns is a page with data, total, page and limit
C6_LeadsAlwaysPage ==
    \A c \in Callers :
        (DoneWith(c, "get_leads") /\ result[c].st = "ok") => IsLeadsPage(result[c].v)

\* C7: when its upstream call fails get_leads returns the empty page with the
\* page and limit it was called with
C7_LeadsFailureIsEmptyPage ==
    \A c \in Callers :
        (DoneWith(c, "get_leads") /\ Failed(log[c][1])) =>
            result[c] = Return(Envelope(List(<<>>), Num(0), args[c].page, args[c].limit))

\* get_leads, called for a page other than the first, met a failed upstream call
C7_Witness ==
    \E c \in Callers :
        /\ DoneWith(c, "get_leads")
        /\ Failed(log[c][1])
        /\ args[c].page # Num(1)
        /\ args[c].limit # Num(10)
        /\ result[c].st = "ok"

\* C8: get_labels asks for the tag list only after the labels endpoint answered
\* 404; any other failure of the labels endpoint, and any failure of the tag
\* list, yields the ten default labels; there are at most two upstream calls
C8_LabelsFallbackChain ==
    \A c \in Callers :
        /\ pc[c] = "labels_tags" => log[c] = <<StatusError(404)>>
        /\ args[c].op = "get_labels" => Len(log[c]) <= 2
        /\ (DoneWith(c, "get_labels") /\ Len(log[c]) = 2) => log[c][1] = StatusError(404)
        /\ (DoneWith(c, "get_labels") /\ log[c] # <<>> /\ Failed(Last(log[c]))) =>
               result[c] = Return(default_labels)

\* get_labels went to the tag list, which failed, and returned the defaults; and
\* (another run) it met a 500 on the labels endpoint and made no second call
C8_Witness ==
    \E c \in Callers :
        /\ DoneWith(c, "get_labels")
        /\ Len(log[c]) = 2
        /\ Failed(log[c][2])
        /\ result[c] = Return(default_labels)

\* C9: after a get_emails or get_labels call whose upstream calls all failed, the
\* family's cache holds no entry for the request
C9_NoEntryAfterFailure ==
    \A c \in Callers :
        /\ (DoneWith(c, "get_labels") /\ AllFailed(c)) => ~HasEntry(label_cache, "labels")
        /\ (DoneWith(c, "get_emails") /\ AllFailed(c)) =>
               ~HasEntry(email_cache, cache_key(args[c]))

\* C10: get_emails, get_labels and get_leads return a value whenever every
\* upstream reply was a 2xx carrying JSON, whatever the shape of the payload
C10_ShapesNeverRaise ==
    \A c \in Callers :
        (pc[c] = "done" /\ args[c].op \in {"get_emails", "get_labels", "get_leads"}
            /\ AllJson(c)) => result[c].st = "ok"

\* the records of the primary reply of c's invocation, as the provider sent them
RawRecords(c) ==
    LET payload == log[c][1].json
        data == IF IsDict(payload) THEN Get(payload, "data", List(<<>>)) ELSE Null
    IN  IF IsList(data) THEN data.l ELSE <<>>

\* c's get_emails went upstream and returned its list of records
Fetched(c) == DoneWith(c, "get_emails") /\ log[c] # <<>> /\ result[c].st = "ok"

TextFields == {"id", "message_id", "subject", "from_address_email", "content_preview"}

\* the fields `raw` lacks have, in `out`, the defaults that do not depend on the record
PlainDefaults(raw, out) ==
    /\ \A f \in TextFields : ~HasKey(raw, f) => Get(out, f, Absent) = Str("")
    /\ \A f \in {"to_address_json", "cc_address_json"} :
            ~HasKey(raw, f) => Get(out, f, Absent) = List(<<>>)
    /\ ~HasKey(raw, "is_unread") => Get(out, "is_unread", Absent) = Bool(FALSE)

\* the sender list built for a record that has none
SenderOf(out) ==
    List(<<Dict([address |-> Get(out, "from_address_email", Absent), name |-> Str("")])>>)

\* C11 as stated: in every record get_emails returns after its primary call, a
\* field missing upstream has its default by type: "" for id, message_id,
\* subject, from_address_email and content_preview, the empty list for the
\* from, to and cc address lists, false for is_unread.
C11_DefaultsByType ==
    \A c \in Callers :
        Fetched(c) =>
            \A i \in 1..Len(RawRecords(c)) :
                LET raw == RawRecords(c)[i]
                    out == result[c].v.l[i]
                IN  /\ PlainDefaults(raw, out)
                    /\ ~HasKey(raw, "from_address_json") =>
                            Get(out, "from_address_json", Absent) = List(<<>>)

\* C11 amended: as above for the text fields, the to and cc lists and
\* is_unread; a missing from list becomes the one-entry list holding the
\* record's from_address_email (itself defaulted to "") under an empty name.
C11_DefaultsAsBuilt ==
    \A c \in Callers :
        Fetched(c) =>
            /\ Len(result[c].v.l) = Len(RawRecords(c))
            /\ \A i \in 1..Len(RawRecords(c)) :
                   LET raw == RawRecords(c)[i]
                       out == result[c].v.l[i]
                   IN  /\ PlainDefaults(raw, out)
                       /\ ~HasKey(raw, "from_address_json") =>
                               Get(out, "from_address_json", Absent) = SenderOf(out)

\* a returned record that came with its sender's address and nothing else
C11_Witness ==
    \E c \in Callers :
        /\ Fetched(c)
        /\ RawRecords(c) = <<SenderOnly>>
        /\ Get(result[c].v.l[1], "from_address_json", Absent)
               = List(<<Address("f@x.io", "")>>)

\* the thread fetched for `out` has an entry of its id with a body to adopt
BodyReplaced(out) ==
    /\ IsList(Get(out, "thread", Null))
    /\ \E j \in 1..Len(out.d["thread"].l) :
           LET entry == out.d["thread"].l[j]
           IN  /\ IsDict(entry)
               /\ Get(entry, "id", Null) = out.d["id"]
               /\ LET body == Get(entry, "body", EmptyDict) IN IsStr(body) \/ IsDict(body)

\* C12: in every record get_emails returns after its primary call, in either
\* mode, an upstream body that is a string s has become {text: s, html: s},
\* unless the record's thread had an entry of its id whose body replaced it.
C12_StringBodyBecomesPair ==
    \A c \in Callers :
        Fetched(c) =>
            \A i \in 1..Len(RawRecords(c)) :
                LET raw == RawRecords(c)[i]
                    out == result[c].v.l[i]
                IN  IsStr(Get(raw, "body", Null)) =>
                        \/ Get(out, "body", Absent) = BodyOf(raw.d["body"])
                        \/ BodyReplaced(out)

\* the live entry of the email cache whose last read or write is oldest
Oldest ==
    LET live == KeysOf(Live(email_cache, now))
        order == SelectSeq(recent, LAMBDA k : k \in live)
    IN  order[1]

\* c's step writes, under a key with no live entry, into a cache full of live entries
FillsFull(c) ==
    /\ InFlight(c)
    /\ pc'[c] = "done"
    /\ result'[c].st = "ok"
    /\ cache_key(args[c]) \notin KeysOf(Live(email_cache, now))
    /\ Len(Live(email_cache, now)) = MaxSize

\* C13: neither cache ever holds more than 100 entries, and a write of a new
\* key into an email cache holding 100 live entries leaves exactly those
\* entries less the one read or written longest ago, plus the new one.
C13_BoundedAndLRU ==
    /\ [](Len(email_cache) <= MaxSize /\ Len(label_cache) <= MaxSize)
    /\ [][\A c \in Callers :
            FillsFull(c) =>
                KeysOf(email_cache')
                    = (KeysOf(Live(email_cache, now)) \ {Oldest}) \cup {cache_key(args[c])}]_vars

\* a full cache that lost campaign 2 to a new campaign and kept campaign 1,
\* whose entry is the first one ever written
C13_Witness ==
    /\ Len(Live(email_cache, now)) = MaxSize
    /\ HasEntry(email_cache, cache_key(CampaignArgs(MaxSize + 1)))
    /\ HasEntry(email_cache, cache_key(CampaignArgs(1)))
    /\ ~HasEntry(email_cache, cache_key(CampaignArgs(2)))
    /\ recent[1] # cache_key(CampaignArgs(1))

\* the cache holds an entry for `key` that is past its time to live at t
Expired(cache, key, t) == HasEntry(cache, key) /\ ~(t < EntryOf(cache, key).expires)

\* C14: a get_emails or get_labels call that finds its key's entry past the
\* family's TTL, at the membership test or at the read that follows it, goes
\* upstream: it neither returns the expired value nor raises.
C14_ExpiredIsAbsent ==
    [][\A c \in Callers :
          /\ (pc[c] = "idle" /\ pc'[c] # "idle" /\ args'[c].op = "get_emails"
                /\ Expired(email_cache, cache_key(args'[c]), now))
             => pc'[c] = "emails_primary"
          /\ (pc[c] = "emails_hit" /\ pc'[c] # pc[c]
                /\ Expired(email_cache, cache_key(args[c]), now))
             => pc'[c] = "emails_primary"
          /\ (pc[c] = "idle" /\ pc'[c] # "idle" /\ args'[c].op = "get_labels"
                /\ Expired(label_cache, "labels", now))
             => pc'[c] = "labels_first"
          /\ (pc[c] = "labels_hit" /\ pc'[c] # pc[c] /\ Expired(label_cache, "labels", now))
             => pc'[c] = "labels_first"]_vars

\* C15: a step that clears one family's cache, no call moving, leaves that
\* cache empty and the other family's cache as it was; and a call that finds
\* its family's cache empty goes upstream.
C15_InvalidationIsPerFamily ==
    [][/\ (pc' = pc /\ email_cache' # email_cache)
          => (email_cache' = <<>> /\ label_cache' = label_cache)
       /\ (pc' = pc /\ label_cache' # label_cache)
          => (label_cache' = <<>> /\ email_cache' = email_cache)
       /\ \A c \in Callers :
             /\ (pc[c] = "idle" /\ pc'[c] # "idle" /\ args'[c].op = "get_emails"
                   /\ email_cache = <<>>)
                => pc'[c] = "emails_primary"
             /\ (pc[c] = "idle" /\ pc'[c] # "idle" /\ args'[c].op = "get_labels"
                   /\ label_cache = <<>>)
                => pc'[c] = "labels_first"]_vars

\* a call that cached its result and found the email cache cleared behind it,
\* the labels still cached
C15_Witness ==
    \E c \in Callers :
        /\ Fetched(c)
        /\ email_cache = <<>>
        /\ label_cache # <<>>

\* c's step belongs to one of the four writes: its call or its reply
WriteStep(c) ==
    /\ pc'[c] # pc[c]
    /\ \/ pc[c] = "idle" /\ args'[c].op \in WriteOps
       \/ pc[c] \in SimpleWaits /\ args[c].op \in WriteOps

\* C16: the steps of send_email, update_email_label, update_lead and
\* add_lead_to_sequence, failing or not, change neither cache, so every tuple
\* fetched less than 300 s ago is still cached with the value fetched then;
\* and a get_emails call for such a tuple goes to the cache, not upstream,
\* and returns that value.
C16_WritesLeaveCaches ==
    [][\A c \in Callers :
          /\ WriteStep(c) =>
                /\ email_cache' = email_cache
                /\ label_cache' = label_cache
                /\ \A a \in EmailArgs :
                      FreshlyFetched(a) =>
                          /\ Contains(email_cache', cache_key(a), now')
                          /\ EntryOf(email_cache', cache_key(a)).value = fetched[a].val
          /\ (pc[c] = "idle" /\ pc'[c] # "idle" /\ args'[c].op = "get_emails"
                /\ FreshlyFetched(args'[c]))
                => (pc'[c] = "emails_hit" /\ log'[c] = <<>>)
          /\ (pc[c] = "emails_hit" /\ pc'[c] = "done" /\ FreshlyFetched(args[c]))
                => (result'[c].st = "ok" /\ result'[c].v = fetched[args[c]].val
                    /\ log'[c] = <<>>)]_vars

\* update_email_label has gone through, some time after a fetch whose result
\* is still cached and not yet expired
C16_Witness ==
    \E c \in Callers :
        /\ DoneWith(c, "update_email_label")
        /\ result[c].st = "ok"
        /\ \E a \in EmailArgs :
              /\ FreshlyFetched(a)
              /\ now > fetched[a].at
              /\ Contains(email_cache, cache_key(a), now)

\* C17: no two tuples that differ share a cache key, so what a get_emails call
\* returns from the cache was fetched upstream for its own tuple, also when a
\* parameter holds ":" or is the text "None".
C17_HitIsForOwnTuple ==
    [][\A c \in Callers :
          (pc[c] = "emails_hit" /\ pc'[c] = "done" /\ result'[c].st = "ok")
             => /\ fetched[args[c]].ok
                /\ result'[c].v = fetched[args[c]].val]_vars

\* C18: a get_emails call that was awaiting upstream when the email cache was
\* invalidated does not write its result into the cache, so that every hit
\* after an invalidation returns a result requested after it.
C18_NoWriteBackAcrossInvalidation ==
    [][\A c \in Callers :
          (stale[c] /\ InFlight(c) /\ pc'[c] = "done") => email_cache' = email_cache]_vars

====
